---- MODULE Spec2Model ----
(***************************************************************************)
(* Model of scripts/agent_template/create.py: AgentTemplateProcessor       *)
(* (parse_frontmatter, replace_variables, process_template, process_all)   *)
(* and main.                                                               *)
(*                                                                         *)
(* Text is a sequence of tokens.  A token is a character Ch(c), a          *)
(* delimiter line Delim (the line "---" with its newline) or one line of   *)
(* a YAML block (with its newline).  Identifiers such as file_name are     *)
(* single tokens.  A Python dict is a sequence of [k, v] pairs with        *)
(* distinct keys, in insertion order.                                      *)
(***************************************************************************)
EXTENDS Integers, Sequences, FiniteSets, TLC

VARIABLES
    fs,               \* the filesystem: path -> text of the file
    dirs,             \* the directories that exist
    output_base_dir,  \* self.output_base_dir
    template_files,   \* process_all: the list glob returned
    i,                \* process_all: position of the for loop in template_files
    pc,               \* process_all: "start", "loop", "done" or "crashed"
    run,              \* number of the current invocation of main
    faults,           \* I/O failures the environment has injected so far
    log,              \* what the current run printed
    writes,           \* the files the current run opened for writing
    last,             \* locals of the latest process_template call
    start,            \* the files and directories when the current run started
    snap,             \* the filesystem when the previous run ended
    origin,           \* the filesystem before the first run
    unit              \* input and result of a stand-alone function call

vars == <<fs, dirs, output_base_dir, template_files, i, pc, run, faults, log,
          writes, last, start, snap, origin, unit>>

\* Bounds of the model.
MaxRuns == 2
MaxFaults == 1
MaxPairs == 2
MaxFrags == 2

----------------------------------------------------------------------------
\* Tokens and values

Ch(c) == [t |-> "ch", c |-> c]

Txt(s) == [n \in 1..Len(s) |-> Ch(s[n])]

Delim == [t |-> "delim"]

\* One line "key: raw" of a YAML block at nesting depth ind.  form is
\* "entry" (key: scalar), "open" (key: followed by a nested block) or
\* "bad" (a line the YAML parser rejects); q says the scalar is quoted.
Line(ind, key, form, raw, q) ==
    [t |-> "line", ind |-> ind, key |-> key, form |-> form, raw |-> raw, q |-> q]

\* Parsed YAML values
Str(s) == [t |-> "str", s |-> s]
Int_(n) == [t |-> "int", n |-> n]
Null == [t |-> "null"]
Map(m) == [t |-> "map", m |-> m]

EmptyDict == <<>>

\* Python truthiness of a parsed value (`x or {}`, `if not x`)
Truthy(v) ==
    CASE v.t = "str" -> v.s # <<>>
      [] v.t = "int" -> v.n # 0
      [] v.t = "null" -> FALSE
      [] v.t = "map" -> v.m # <<>>

\* dict operations
DictHas(d, k) == \E n \in 1..Len(d) : d[n].k = k

DictGet(d, k, default) ==
    IF DictHas(d, k) THEN d[CHOOSE n \in 1..Len(d) : d[n].k = k].v ELSE default

\* d[k] = v: an existing key keeps its position
DictSet(d, k, v) ==
    IF DictHas(d, k)
    THEN [n \in 1..Len(d) |-> IF d[n].k = k THEN [k |-> k, v |-> v] ELSE d[n]]
    ELSE Append(d, [k |-> k, v |-> v])

DictKeys(d) == [n \in 1..Len(d) |-> d[n].k]

KeySet(d) == {d[n].k : n \in 1..Len(d)}

\* The keys the code names
output == Txt(<<"output">>)
metadata == Txt(<<"metadata">>)
file_name == Txt(<<"file_name">>)

----------------------------------------------------------------------------
\* str(value)

Digits == <<"0", "1", "2", "3", "4", "5", "6", "7", "8", "9">>

IsDigit(tk) == tk.t = "ch" /\ \E n \in 1..10 : Digits[n] = tk.c

DigitVal(tk) == (CHOOSE n \in 1..10 : Digits[n] = tk.c) - 1

RECURSIVE DecimalOf(_)
DecimalOf(n) ==
    IF n < 10 THEN <<Ch(Digits[n + 1])>>
    ELSE Append(DecimalOf(n \div 10), Ch(Digits[(n % 10) + 1]))

RECURSIVE NumberOf(_)
NumberOf(s) ==
    IF s = <<>> THEN 0
    ELSE 10 * NumberOf(SubSeq(s, 1, Len(s) - 1)) + DigitVal(s[Len(s)])

RECURSIVE PyStr(_)
RECURSIVE ReprPairs(_, _)
ReprPairs(m, n) ==
    IF n > Len(m) THEN <<>>
    ELSE (IF n > 1 THEN Txt(<<",", " ">>) ELSE <<>>)
         \o Txt(<<"'">>) \o m[n].k \o Txt(<<"'", ":", " ">>)
         \o (IF m[n].v.t = "str"
             THEN Txt(<<"'">>) \o m[n].v.s \o Txt(<<"'">>)
             ELSE PyStr(m[n].v))
         \o ReprPairs(m, n + 1)

\* str(value) at line 67
PyStr(v) ==
    CASE v.t = "str" -> v.s
      [] v.t = "int" -> DecimalOf(v.n)
      [] v.t = "null" -> Txt(<<"N", "o", "n", "e">>)
      [] v.t = "map" -> Txt(<<"{">>) \o ReprPairs(v.m, 1) \o Txt(<<"}">>)

----------------------------------------------------------------------------
\* yaml.safe_load and yaml.dump on the lines of a block

NL == Ch("\n")

\* A scalar written without quotes resolves by its text; a quoted one is a
\* string.
PlainScalar(raw) ==
    IF raw = <<>> \/ raw = Txt(<<"null">>) THEN Null
    ELSE IF raw = Txt(<<"{", "}">>) THEN Map(EmptyDict)
    ELSE IF \A n \in 1..Len(raw) : IsDigit(raw[n]) THEN Int_(NumberOf(raw))
    ELSE Str(raw)

ScalarOf(line) ==
    IF line.form = "open" THEN Null
    ELSE IF line.q THEN Str(line.raw)
    ELSE PlainScalar(line.raw)

\* The text is not YAML: a rejected line, lines mixed with loose characters,
\* or a nested line that follows neither a "key:" line nor a nested line.
YamlInvalid(ts) ==
    \/ \E n \in 1..Len(ts) : ts[n].t = "delim"
    \/ \E n \in 1..Len(ts) : ts[n].t = "line" /\ ts[n].form = "bad"
    \/ /\ \E n \in 1..Len(ts) : ts[n].t = "line"
       /\ \E n \in 1..Len(ts) : ts[n].t = "ch"
    \/ \E n \in 1..Len(ts) :
          /\ ts[n].t = "line"
          /\ ts[n].ind = 1
          /\ \/ n = 1
             \/ ts[n - 1].ind = 0 /\ ts[n - 1].form # "open"

NestedOf(v) == IF v.t = "map" THEN v.m ELSE EmptyDict

\* The mapping a block of lines denotes: a repeated key takes its last
\* value and keeps its first position.
RECURSIVE LoadLines(_, _, _)
LoadLines(ts, top, cur) ==
    IF ts = <<>> THEN top
    ELSE LET l == Head(ts) IN
         IF l.ind = 0
         THEN LoadLines(Tail(ts), DictSet(top, l.key, ScalarOf(l)), l.key)
         ELSE LoadLines(Tail(ts),
                        DictSet(top, cur,
                                Map(DictSet(NestedOf(DictGet(top, cur, Null)),
                                            l.key, ScalarOf(l)))),
                        cur)

\* yaml.safe_load: ok = FALSE stands for yaml.YAMLError
safe_load(ts) ==
    IF YamlInvalid(ts) THEN [ok |-> FALSE, v |-> Null]
    ELSE IF \A n \in 1..Len(ts) : ts[n].t = "ch"
    THEN [ok |-> TRUE, v |-> PlainScalar(SelectSeq(ts, LAMBDA tk : tk # NL))]
    ELSE [ok |-> TRUE, v |-> Map(LoadLines(ts, EmptyDict, <<>>))]

\* The characters that cannot start a plain scalar
Indicators == {"{", "}", "[", "]", "'", "\"", "#", "&", "*", "!", "|", ">", "%", "@"}

NeedsQuote(s) ==
    \/ PlainScalar(s) # Str(s)
    \/ s[1].c \in Indicators

\* Alphabetical order of the keys of the model, for sort_keys=True
KeyOrder == <<Txt(<<"a">>), Txt(<<"b">>), file_name, metadata, output>>

SortedByKey(m) ==
    LET known == SelectSeq(KeyOrder, LAMBDA k : DictHas(m, k))
    IN  [n \in 1..Len(known) |-> [k |-> known[n], v |-> DictGet(m, known[n], Null)]]

DumpSorted(m) == SortedByKey(m)

\* yaml.dump(..., sort_keys=False): the pairs in the dict's own order
DumpOrder(m) == m

RECURSIVE DumpMap(_, _)
DumpMap(m, ind) ==
    IF m = <<>> THEN <<>>
    ELSE LET p == Head(DumpOrder(m))
             rest == Tail(DumpOrder(m))
             here ==
                 CASE p.v.t = "map" /\ p.v.m # <<>> ->
                          <<Line(ind, p.k, "open", <<>>, FALSE)>>
                          \o DumpMap(p.v.m, ind + 1)
                   [] p.v.t = "map" /\ p.v.m = <<>> ->
                          <<Line(ind, p.k, "entry", Txt(<<"{", "}">>), FALSE)>>
                   [] p.v.t = "null" ->
                          <<Line(ind, p.k, "entry", Txt(<<"null">>), FALSE)>>
                   [] p.v.t = "int" ->
                          <<Line(ind, p.k, "entry", DecimalOf(p.v.n), FALSE)>>
                   [] p.v.t = "str" ->
                          <<Line(ind, p.k, "entry", p.v.s, NeedsQuote(p.v.s))>>
         IN  here \o DumpMap(rest, ind)

\* yaml.dump(frontmatter, allow_unicode=True, sort_keys=False), line 119
dump(frontmatter) == DumpMap(frontmatter.m, 0)

----------------------------------------------------------------------------
\* parse_frontmatter, lines 25-51

EndsLine(tk) == tk.t = "line" \/ tk = NL

\* re.match(r'^---\s*\n(.*?)\n---\s*\n(.*)$', content, re.DOTALL): the text
\* opens with a delimiter line and a later delimiter line closes the block.
BlockEnds(content) ==
    {j \in 3..Len(content) : content[j] = Delim /\ EndsLine(content[j - 1])}

Matches(content) ==
    /\ Len(content) >= 3
    /\ content[1] = Delim
    /\ BlockEnds(content) # {}

\* (.*?) is not greedy: the block ends at the first closing delimiter
BlockEnd(content) == CHOOSE j \in BlockEnds(content) : \A k \in BlockEnds(content) : j <= k

\* match.group(1): the newline before the closing delimiter is not part of it
Group1(content) ==
    LET j == BlockEnd(content)
    IN  IF content[j - 1] = NL THEN SubSeq(content, 2, j - 2)
        ELSE SubSeq(content, 2, j - 1)

\* \s*\n after the closing "---" also takes the blank lines that follow
RECURSIVE SkipBlank(_)
SkipBlank(s) == IF s # <<>> /\ Head(s) = NL THEN SkipBlank(Tail(s)) ELSE s

\* match.group(2)
Group2(content) == SkipBlank(SubSeq(content, BlockEnd(content) + 1, Len(content)))

\* `frontmatter or {}`
OrEmpty(v) == IF Truthy(v) THEN v ELSE Map(EmptyDict)

\* `return {}, body` in the except branch
parse_frontmatter_partial(content) ==
    IF ~Matches(content)
    THEN [frontmatter |-> Map(EmptyDict), body |-> content, warned |-> FALSE]
    ELSE [frontmatter |-> IF safe_load(Group1(content)).ok
                          THEN OrEmpty(safe_load(Group1(content)).v)
                          ELSE Map(EmptyDict),
          body |-> Group2(content),
          warned |-> ~safe_load(Group1(content)).ok]

parse_frontmatter(content) ==
    IF ~Matches(content)
    THEN [frontmatter |-> Map(EmptyDict), body |-> content, warned |-> FALSE]
    ELSE LET y == safe_load(Group1(content)) IN
         IF y.ok
         THEN [frontmatter |-> OrEmpty(y.v), body |-> Group2(content), warned |-> FALSE]
         ELSE [frontmatter |-> Map(EmptyDict), body |-> content, warned |-> TRUE]

----------------------------------------------------------------------------
\* replace_variables, lines 53-68

AsciiLetters ==
    {"a", "b", "c", "d", "e", "f", "g", "h", "i", "j", "k", "l", "m", "n", "o",
     "p", "q", "r", "s", "t", "u", "v", "w", "x", "y", "z",
     "A", "B", "C", "D", "E", "F", "G", "H", "I", "J", "K", "L", "M", "N", "O",
     "P", "Q", "R", "S", "T", "U", "V", "W", "X", "Y", "Z"}

\* The escapes re knows in a replacement string
EscapeOf(c) ==
    CASE c = "n" -> "\n"
      [] c = "t" -> "\t"
      [] c = "r" -> "\r"
      [] c = "f" -> "\f"
      [] c = "a" -> "<BEL>"
      [] c = "b" -> "<BS>"
      [] c = "v" -> "<VT>"
      [] c = "0" -> "<NUL>"
      [] c = "\\" -> "\\"

Escapes == {"n", "t", "r", "f", "a", "b", "v", "0", "\\"}

Backslash == Ch("\\")

\* re.sub reads its replacement as a template: a backslash starts an escape,
\* an unknown escape of a letter, a reference to a group the pattern does not
\* have (the pattern has none) and a lone final backslash raise re.error.
\* (\g<..> needs "<", which is not a character of the model.)
RECURSIVE ExpandFrom(_, _)
ExpandFrom(repl, n) ==
    IF n > Len(repl) THEN [ok |-> TRUE, s |-> <<>>]
    ELSE IF repl[n] # Backslash
    THEN LET r == ExpandFrom(repl, n + 1)
         IN  [ok |-> r.ok, s |-> <<repl[n]>> \o r.s]
    ELSE IF n = Len(repl) THEN [ok |-> FALSE, s |-> <<>>]
    ELSE LET c == repl[n + 1].c
             r == ExpandFrom(repl, n + 2)
         IN  IF c \in Escapes THEN [ok |-> r.ok, s |-> <<Ch(EscapeOf(c))>> \o r.s]
             ELSE IF c \in AsciiLetters \/ IsDigit(repl[n + 1])
             THEN [ok |-> FALSE, s |-> <<>>]
             ELSE [ok |-> r.ok, s |-> <<repl[n], repl[n + 1]>> \o r.s]

TemplateExpand(repl) == ExpandFrom(repl, 1)

MatchAt(pat, s, n) ==
    /\ n + Len(pat) - 1 <= Len(s)
    /\ SubSeq(s, n, n + Len(pat) - 1) = pat

\* The matches of a literal pattern, leftmost first, not overlapping
RECURSIVE SubFrom(_, _, _, _)
SubFrom(pat, rep, s, n) ==
    IF n > Len(s) THEN <<>>
    ELSE IF MatchAt(pat, s, n) THEN rep \o SubFrom(pat, rep, s, n + Len(pat))
    ELSE <<s[n]>> \o SubFrom(pat, rep, s, n + 1)

\* re.sub(pattern, repl, string); ok = FALSE stands for re.error
re_sub(pat, repl, s) ==
    LET e == TemplateExpand(repl)
    IN  IF e.ok THEN [ok |-> TRUE, s |-> SubFrom(pat, e.s, s, 1)]
        ELSE [ok |-> FALSE, s |-> s]

\* r'\{\{' + re.escape(key) + r'\}\}': the key is matched literally
Placeholder(key) == Txt(<<"{", "{">>) \o key \o Txt(<<"}", "}">>)

\* the for loop of lines 65-67, from the n-th item of variables.items()
RECURSIVE ReplaceFrom(_, _, _)
ReplaceFrom(result, variables, n) ==
    IF n > Len(variables) THEN [ok |-> TRUE, s |-> result]
    ELSE LET r == re_sub(Placeholder(variables[n].k), PyStr(variables[n].v), result)
         IN  IF r.ok THEN ReplaceFrom(r.s, variables, n + 1) ELSE r

replace_variables(content, variables) == ReplaceFrom(content, variables, 1)

----------------------------------------------------------------------------
\* Paths and the filesystem.  A path is the sequence of its components.

\* main, lines 144-146: the shipped configuration uses one directory for both
template_dir == "github-copilot"

OtherDir == "generated"

\* Path.glob('*.md') looks at the suffix of a name
MdNames == {"a.md", "b.md", "o.md"}

SuffixIsMd(name) == name \in MdNames

\* self.template_dir.glob('*.md'), line 126: the entries directly inside the
\* directory, files and directories alike
GlobMd(files, folders) ==
    {p \in (DOMAIN files) \cup folders :
        Len(p) = 2 /\ p[1] = template_dir /\ SuffixIsMd(p[2])}

Components(s) ==
    LET cs == SelectSeq(s, LAMBDA tk : tk.c # "/")
    IN  [n \in 1..Len(cs) |-> cs[n].c]

\* self.output_base_dir / output_filename, line 115 (relative names)
PathJoin(base, name) == <<base>> \o Components(name)

Parent(path) == SubSeq(path, 1, Len(path) - 1)

Prefixes(path) == {SubSeq(path, 1, k) : k \in 1..Len(path)}

WriteFile(files, path, text) ==
    [p \in (DOMAIN files) \cup {path} |-> IF p = path THEN text ELSE files[p]]

----------------------------------------------------------------------------
\* process_template, lines 70-122

IsVariableAny(key) == TRUE

\* `if key != 'file_name'`, line 108
IsVariable(key) == key # file_name

\* lines 102-103
RECURSIVE AddMetadata(_, _, _)
AddMetadata(variables, metadata_, n) ==
    IF n > Len(metadata_) THEN variables
    ELSE AddMetadata(DictSet(variables, metadata_[n].k, metadata_[n].v), metadata_, n + 1)

\* lines 107-109
RECURSIVE AddOutput(_, _, _)
AddOutput(variables, output_info, n) ==
    IF n > Len(output_info) THEN variables
    ELSE AddOutput(IF IsVariable(output_info[n].k)
                   THEN DictSet(variables, output_info[n].k, output_info[n].v)
                   ELSE variables,
                   output_info, n + 1)

\* lines 98-109
CollectVariables(metadata_, output_info) ==
    AddOutput(AddMetadata(EmptyDict, metadata_, 1), output_info, 1)

Msg(m, file) == [msg |-> m, file |-> file]

Unset == [t |-> "unset"]

\* What one call of process_template does is a record: the exception it
\* raises ("none": it returns), the filesystem it leaves, what it prints, the
\* files it opens for writing and its locals.  io is the I/O operation the
\* environment makes fail, if any.
Entered(template_file) ==
    [raised |-> "none", outcome |-> "raised", faulted |-> FALSE, read |-> FALSE,
     fs |-> fs, dirs |-> dirs, log |-> <<Msg("Processing", template_file)>>,
     writes |-> <<>>, template_file |-> template_file, content |-> Unset,
     frontmatter |-> Unset, body |-> Unset, variables |-> Unset,
     processed_body |-> Unset, output_path |-> Unset, full_content |-> Unset]

Raise(loc, exc, faulted) == [loc EXCEPT !.raised = exc, !.faulted = faulted]

\* output_info['file_name'] instead of output_info.get('file_name')
WarnRaises(loc, outcome, text) == Raise(loc, "KeyError", FALSE)

\* a warning is printed and the call returns
Warn(loc, outcome, text) ==
    [loc EXCEPT !.outcome = outcome,
                !.log = Append(loc.log, Msg(text, loc.template_file))]

Opened(loc, text) == <<[by |-> loc.template_file, path |-> loc.output_path, text |-> text]>>

\* lines 116-122: mkdir(parents=True, exist_ok=True), write_text, print
WriteOutput(loc, io) ==
    LET parents == Prefixes(Parent(loc.output_path)) IN
    IF io = "mkdir" \/ parents \cap DOMAIN fs # {}
    THEN Raise(loc, "OSError", io = "mkdir")
    \* the file cannot be opened
    ELSE IF io = "open" \/ loc.output_path \in dirs
    THEN [loc EXCEPT !.raised = "OSError", !.faulted = (io = "open"),
                     !.dirs = dirs \cup parents]
    \* the file is opened, which empties it, and the write fails
    ELSE IF io = "write"
    THEN [loc EXCEPT !.raised = "OSError", !.faulted = TRUE,
                     !.dirs = dirs \cup parents,
                     !.fs = WriteFile(fs, loc.output_path, <<>>),
                     !.writes = Opened(loc, <<>>)]
    ELSE [loc EXCEPT !.outcome = "created",
                     !.dirs = dirs \cup parents,
                     !.fs = WriteFile(fs, loc.output_path, loc.full_content),
                     !.writes = Opened(loc, loc.full_content),
                     !.log = Append(loc.log, Msg("Created", loc.output_path))]

\* lines 112-119: processed is what replace_variables returned
Rendered(loc, io, output_filename, processed) ==
    IF ~processed.ok THEN Raise(loc, "re.error", FALSE)
    \* line 115: a Path cannot be joined with an int
    ELSE IF output_filename.t # "str" THEN Raise(loc, "TypeError", FALSE)
    ELSE WriteOutput(
             [loc EXCEPT !.processed_body = processed.s,
                         !.output_path = PathJoin(output_base_dir, output_filename.s),
                         !.full_content = <<Delim>> \o dump(loc.frontmatter)
                                          \o <<Delim>> \o processed.s],
             io)

\* line 112
WithVariables(loc, io, output_filename, variables) ==
    Rendered([loc EXCEPT !.variables = variables], io, output_filename,
             replace_variables(loc.body, variables))

\* lines 98-109; line 102: None, a str or an int has no items
WithMetadata(loc, io, output_info, output_filename, metadata_) ==
    IF metadata_.t # "map" THEN Raise(loc, "AttributeError", FALSE)
    ELSE WithVariables(loc, io, output_filename,
                       CollectVariables(metadata_.m, output_info.m))

\* lines 93-101
WithFileName(loc, io, output_info, output_filename) ==
    IF ~Truthy(output_filename)
    THEN Warn(loc, "no file_name", "Warning: No file_name in output info")
    ELSE WithMetadata(loc, io, output_info, output_filename,
                      DictGet(loc.frontmatter.m, metadata, Map(EmptyDict)))

\* lines 87-92; line 92: a str or an int has no get
WithOutputInfo(loc, io, output_info) ==
    IF ~Truthy(output_info)
    THEN Warn(loc, "no output", "Warning: No output info found")
    ELSE IF output_info.t # "map" THEN Raise(loc, "AttributeError", FALSE)
    ELSE WithFileName(loc, io, output_info, DictGet(output_info.m, file_name, Null))

\* lines 83-86; line 86: a str or an int has no get
Parsed(loc, io, parsed) ==
    LET loc1 == [loc EXCEPT !.frontmatter = parsed.frontmatter,
                            !.body = parsed.body,
                            !.log = IF parsed.warned
                                    THEN Append(loc.log, Msg("Warning: YAML parse error",
                                                             loc.template_file))
                                    ELSE loc.log]
    IN  IF parsed.frontmatter.t # "map" THEN Raise(loc1, "AttributeError", FALSE)
        ELSE WithOutputInfo(loc1, io, DictGet(parsed.frontmatter.m, output, Map(EmptyDict)))

\* lines 80-83
ReadText(loc, io, content) ==
    Parsed([loc EXCEPT !.read = TRUE, !.content = content], io,
           parse_frontmatter(content))

\* lines 70-122
process_template(template_file, io) ==
    IF io = "read" \/ template_file \notin DOMAIN fs
    THEN Raise(Entered(template_file), "OSError", io = "read")
    ELSE ReadText(Entered(template_file), io, fs[template_file])

----------------------------------------------------------------------------
\* The templates of the model

A == Txt(<<"a">>)
B == Txt(<<"b">>)
X == Txt(<<"X">>)

Ref(key) == Placeholder(key)

Quoted(ind, key, raw) == Line(ind, key, "entry", raw, TRUE)
Plain(ind, key, raw) == Line(ind, key, "entry", raw, FALSE)
Open(key) == Line(0, key, "open", <<>>, FALSE)

Doc(block, body) == <<Delim>> \o block \o <<Delim>> \o body

\* no block at all
DocNoHeader == Txt(<<"x">>) \o Ref(A)

\* a block that is not YAML
DocBadYaml ==
    Doc(<<Open(output), Line(1, file_name, "bad", Txt(<<"[">>), FALSE)>>, Ref(A))

\* a block that is a YAML string, not a mapping
DocScalar == Doc(<<Ch("x"), NL>>, Ref(A))

DocNoOutput == Doc(<<Open(metadata), Plain(1, A, X)>>, Ref(A))

DocNoFileName == Doc(<<Open(output), Plain(1, A, X)>>, Ref(A))

DocEmptyFileName ==
    Doc(<<Open(output), Quoted(1, file_name, <<>>), Plain(1, A, X)>>, Ref(A))

\* metadata and output share a; metadata has a file_name of its own
DocGood ==
    Doc(<<Open(metadata), Quoted(1, A, Txt(<<"1">>)), Plain(1, file_name, Txt(<<"m">>)),
          Open(output), Plain(1, file_name, Txt(<<"o.md">>)), Plain(1, A, Txt(<<"2">>))>>,
        <<NL, NL>> \o Ref(A) \o Ref(Txt(<<"u">>)) \o Ref(file_name))

\* a value that is itself a placeholder; output is declared before metadata
DocChain ==
    Doc(<<Open(output), Quoted(1, B, Ref(A)), Plain(1, file_name, Txt(<<"o.md">>)),
          Open(metadata), Plain(1, A, X)>>,
        Ref(B))

\* its output is the template b.md
DocOverwrite ==
    Doc(<<Open(output), Plain(1, file_name, Txt(<<"b.md">>))>>, Txt(<<"x">>))

DocNested ==
    Doc(<<Open(output), Plain(1, file_name, Txt(<<"d", "/", "o.md">>)), Plain(1, A, X)>>,
        Ref(A) \o Ref(A))

\* "metadata:" with nothing under it is None
DocNullMetadata ==
    Doc(<<Open(metadata), Open(output), Plain(1, file_name, Txt(<<"o.md">>))>>, Ref(A))

\* a Windows path as a value
DocBackslash ==
    Doc(<<Open(metadata), Plain(1, A, Txt(<<"C", ":", "\\", "d">>)),
          Open(output), Plain(1, file_name, Txt(<<"o.md">>))>>,
        Txt(<<"x">>))

DocIntFileName == Doc(<<Open(output), Plain(1, file_name, Txt(<<"7">>))>>, Ref(A))

DocScalarOutput == Doc(<<Plain(0, output, Txt(<<"o.md">>))>>, Ref(A))

TemplateDocs ==
    {DocNoHeader, DocBadYaml, DocScalar, DocNoOutput, DocNoFileName,
     DocEmptyFileName, DocGood, DocChain, DocOverwrite, DocNested,
     DocNullMetadata, DocBackslash, DocIntFileName, DocScalarOutput}

\* Files glob must not list: not *.md, and not directly inside the directory
FixedFiles ==
    (<<template_dir, "notes.txt">> :> DocGood)
    @@ (<<template_dir, "sub", "a.md">> :> DocGood)

FixedDirs == {<<template_dir>>, <<template_dir, "sub">>}

----------------------------------------------------------------------------
\* process_all and main

ExceptionClasses == {"OSError", "AttributeError", "TypeError", "KeyError", "re.error"}

CatchesOSError(exc) == exc = "OSError"

\* `except Exception`, line 137
Catches(exc) == exc \in ExceptionClasses

IOFaults == {"read", "mkdir", "open", "write"}

Perms(S) ==
    {s \in [1..Cardinality(S) -> S] :
        \A x, y \in 1..Cardinality(S) : x # y => s[x] # s[y]}

NoCall == [outcome |-> "none", raised |-> "none", read |-> FALSE, io |-> "ok", wrote |-> <<>>]

NoUnit == [op |-> "none"]

Init ==
    /\ \E ta, tb \in {<<>>} \cup {<<d>> : d \in TemplateDocs} :
          fs = FixedFiles
               @@ (IF ta = <<>> THEN <<>> ELSE (<<template_dir, "a.md">> :> ta[1]))
               @@ (IF tb = <<>> THEN <<>> ELSE (<<template_dir, "b.md">> :> tb[1]))
    /\ dirs = FixedDirs
    /\ output_base_dir \in {template_dir, OtherDir}
    /\ template_files = <<>>
    /\ i = 1
    /\ pc = "start"
    /\ run = 1
    /\ faults = 0
    /\ log = <<>>
    /\ writes = <<>>
    /\ last = NoCall
    /\ start = [fs |-> fs, dirs |-> dirs]
    /\ snap = fs
    /\ origin = fs
    /\ unit = NoUnit

\* process_all, lines 126-132
ListTemplates ==
    /\ pc = "start"
    /\ \E order \in Perms(GlobMd(fs, dirs)) :
          /\ template_files' = order
          /\ IF order = <<>>
             THEN /\ pc' = "done"
                  /\ log' = <<Msg("No template files found", <<template_dir>>)>>
             ELSE /\ pc' = "loop"
                  /\ log' = <<Msg("Found", Len(order))>>
    /\ i' = 1
    /\ writes' = <<>>
    /\ start' = [fs |-> fs, dirs |-> dirs]
    /\ last' = NoCall
    /\ UNCHANGED <<fs, dirs, output_base_dir, run, faults, snap, origin, unit>>

\* A loop over a listing that is still being produced sees the files the
\* run itself creates
LoopItemLive ==
    LET fresh == GlobMd(fs, dirs) \ GlobMd(start.fs, start.dirs)
    IN  IF fresh # {} THEN CHOOSE p \in fresh : TRUE ELSE template_files[i]

\* `for template_file in template_files`, line 134
LoopItem == template_files[i]

\* What the loop does with the result r of the call: lines 136-138
Handle(io, r) ==
    /\ io # "ok" => r.faulted
    /\ fs' = r.fs
    /\ dirs' = r.dirs
    /\ writes' = writes \o r.writes
    /\ log' = log \o r.log
              \o (IF r.raised # "none" /\ Catches(r.raised)
                  THEN <<Msg("Error processing", r.template_file)>>
                  ELSE <<>>)
    /\ last' = [template_file |-> r.template_file, io |-> io,
                raised |-> r.raised, outcome |-> r.outcome, read |-> r.read,
                content |-> r.content, frontmatter |-> r.frontmatter,
                body |-> r.body, variables |-> r.variables,
                processed_body |-> r.processed_body,
                output_path |-> r.output_path,
                full_content |-> r.full_content, wrote |-> r.writes]
    /\ faults' = faults + (IF r.faulted THEN 1 ELSE 0)
    /\ pc' = IF r.raised # "none" /\ ~Catches(r.raised) THEN "crashed"
             ELSE IF i = Len(template_files) THEN "done"
             ELSE "loop"

\* process_all, lines 134-138: one turn of the for loop
ProcessNext ==
    /\ pc = "loop"
    /\ \E io \in {"ok"} \cup (IF faults < MaxFaults THEN IOFaults ELSE {}) :
          Handle(io, process_template(LoopItem, io))
    /\ i' = i + 1
    /\ UNCHANGED <<output_base_dir, template_files, run, start, snap, origin, unit>>

\* main is invoked again on what the previous run left
RunAgain ==
    /\ pc = "done"
    /\ run < MaxRuns
    /\ run' = run + 1
    /\ pc' = "start"
    /\ snap' = fs
    /\ template_files' = <<>>
    /\ i' = 1
    /\ log' = <<>>
    /\ writes' = <<>>
    /\ last' = NoCall
    /\ UNCHANGED <<fs, dirs, output_base_dir, faults, start, origin, unit>>

Next == ListTemplates \/ ProcessNext \/ RunAgain

Spec == Init /\ [][Next]_vars

----------------------------------------------------------------------------
\* Stand-alone calls of the pure functions, on generated inputs

\* The dicts of at most max pairs over the given keys and values
Dicts(keys, vals, max) ==
    UNION {{d \in [1..n -> {[k |-> k, v |-> v] : k \in keys, v \in vals}] :
               \A x, y \in 1..n : x # y => d[x].k # d[y].k} : n \in 0..max}

RECURSIVE Concat(_)
Concat(ss) == IF ss = <<>> THEN <<>> ELSE Head(ss) \o Concat(Tail(ss))

U == Txt(<<"u">>)

Frags == {Ref(A), Ref(B), Ref(U), Txt(<<"x">>), Txt(<<"{">>), Txt(<<"}", "}">>)}

Bodies == {Concat(ss) : ss \in UNION {[1..n -> Frags] : n \in 0..MaxFrags}}

ResolveKeys == {A, B, file_name}

ResolveValues == {Str(X), Str(Txt(<<"Y">>)), Int_(2)}

RenderKeys == {A, B}

RenderValues ==
    {Str(X), Str(Ref(A)), Str(Ref(B)), Int_(7),
     Str(Txt(<<"C", ":", "\\", "d">>)), Str(Txt(<<"\\", "n">>))}

\* The pipeline stands still during a stand-alone call
Idle ==
    /\ fs = <<>>
    /\ dirs = {}
    /\ output_base_dir = template_dir
    /\ template_files = <<>>
    /\ i = 1
    /\ pc = "unit"
    /\ run = 1
    /\ faults = 0
    /\ log = <<>>
    /\ writes = <<>>
    /\ last = NoCall
    /\ start = [fs |-> fs, dirs |-> dirs]
    /\ snap = fs
    /\ origin = fs

pipeline == <<fs, dirs, output_base_dir, template_files, i, pc, run, faults, log,
              writes, last, start, snap, origin>>

\* lines 97-109 are reached with a file_name in output that is not empty
InitResolve ==
    /\ Idle
    /\ \E m \in Dicts(ResolveKeys, ResolveValues, MaxPairs),
          o \in Dicts(ResolveKeys, ResolveValues, MaxPairs) :
          /\ Truthy(DictGet(o, file_name, Null))
          /\ unit = [op |-> "resolve", done |-> FALSE, metadata_ |-> m,
                     output_info |-> o, variables |-> EmptyDict]

Resolve ==
    /\ unit.op = "resolve"
    /\ ~unit.done
    /\ unit' = [unit EXCEPT !.done = TRUE,
                            !.variables = CollectVariables(unit.metadata_, unit.output_info)]
    /\ UNCHANGED pipeline

SpecResolve == InitResolve /\ [][Resolve]_vars

InitRender ==
    /\ Idle
    /\ \E b \in Bodies, v \in Dicts(RenderKeys, RenderValues, MaxPairs) :
          unit = [op |-> "render", done |-> FALSE, body |-> b, variables |-> v,
                  result |-> [ok |-> TRUE, s |-> <<>>]]

Render ==
    /\ unit.op = "render"
    /\ ~unit.done
    /\ unit' = [unit EXCEPT !.done = TRUE,
                            !.result = replace_variables(unit.body, unit.variables)]
    /\ UNCHANGED pipeline

SpecRender == InitRender /\ [][Render]_vars

----------------------------------------------------------------------------
\* Properties

\* The templates process_template was entered for, in order
Attempted ==
    LET p == SelectSeq(log, LAMBDA e : e.msg = "Processing")
    IN  [n \in 1..Len(p) |-> p[n].file]

Listed == {template_files[n] : n \in 1..Len(template_files)}

\* The run goes on to the next template, or has finished the list
GoesOn ==
    /\ pc # "crashed"
    /\ pc = "loop" => i <= Len(template_files)
    /\ pc = "done" => Attempted = template_files

\* C1 as stated: the mapping has the keys of metadata and the keys of output
\* other than file_name, and every key present in both metadata and output
\* maps to the output value.
C1_OutputWinsForEveryKey ==
    (unit.op = "resolve" /\ unit.done) =>
        /\ KeySet(unit.variables)
              = KeySet(unit.metadata_) \cup (KeySet(unit.output_info) \ {file_name})
        /\ \A k \in KeySet(unit.metadata_) \cap KeySet(unit.output_info) :
              DictGet(unit.variables, k, Null) = DictGet(unit.output_info, k, Null)

\* C1 amended: the mapping has the keys of metadata and the keys of output
\* other than file_name; a key other than file_name present in output maps
\* to the output value, also when metadata has it; every other key, file_name
\* included, maps to its metadata value, so output.file_name is never a value
\* of the mapping's file_name.
C1_OutputWinsExceptFileName ==
    (unit.op = "resolve" /\ unit.done) =>
        /\ KeySet(unit.variables)
              = KeySet(unit.metadata_) \cup (KeySet(unit.output_info) \ {file_name})
        /\ Len(unit.variables) = Cardinality(KeySet(unit.variables))
        /\ \A k \in KeySet(unit.output_info) \ {file_name} :
              DictGet(unit.variables, k, Null) = DictGet(unit.output_info, k, Null)
        /\ \A k \in KeySet(unit.metadata_) \ (KeySet(unit.output_info) \ {file_name}) :
              DictGet(unit.variables, k, Null) = DictGet(unit.metadata_, k, Null)

C1_Witness ==
    /\ unit.op = "resolve"
    /\ unit.done
    /\ DictHas(unit.metadata_, file_name)
    /\ DictGet(unit.metadata_, file_name, Null) # DictGet(unit.output_info, file_name, Null)
    /\ DictHas(unit.metadata_, A)
    /\ DictHas(unit.output_info, A)
    /\ DictGet(unit.metadata_, A, Null) # DictGet(unit.output_info, A, Null)

\* One pass over the body: each occurrence of {{k}}, k a key of the mapping,
\* becomes str(value); everything else stays
RECURSIVE SinglePassFrom(_, _, _)
SinglePassFrom(body, variables, n) ==
    IF n > Len(body) THEN <<>>
    ELSE LET hits == {j \in 1..Len(variables) : MatchAt(Placeholder(variables[j].k), body, n)}
         IN  IF hits = {} THEN <<body[n]>> \o SinglePassFrom(body, variables, n + 1)
             ELSE LET j == CHOOSE j \in hits : TRUE
                  IN  PyStr(variables[j].v)
                      \o SinglePassFrom(body, variables, n + Len(Placeholder(variables[j].k)))

SinglePass(body, variables) == SinglePassFrom(body, variables, 1)

\* C2: replace_variables replaces every {{k}} of the body, k a key of the
\* mapping, by the string form of the value of k, and leaves every {{u}}, u
\* not a key, as it is.
C2_ReplacesEachPlaceholderByItsValue ==
    (unit.op = "render" /\ unit.done) =>
        /\ unit.result.ok
        /\ unit.result.s = SinglePass(unit.body, unit.variables)

HasBackslash(v) == v.t = "str" /\ \E n \in 1..Len(v.s) : v.s[n] = Backslash

\* C3: with two or more keys, the text put in for one key is not scanned
\* for the placeholder of another key, in whichever order the keys are
\* taken: the result is that of one pass over the body.
C3_InsertedTextIsNotRescanned ==
    (/\ unit.op = "render"
     /\ unit.done
     /\ Len(unit.variables) >= 2
     /\ \A n \in 1..Len(unit.variables) : ~HasBackslash(unit.variables[n].v)) =>
        unit.result.s = SinglePass(unit.body, unit.variables)

\* C4: a failure in one template is caught and logged, the templates after
\* it are processed, and the run completes.
C4_FailureIsCaughtAndRunGoesOn ==
    /\ GoesOn
    /\ pc = "loop" => Attempted = SubSeq(template_files, 1, i - 1)
    /\ (last.outcome # "none" /\ last.raised # "none") =>
          log[Len(log)] = Msg("Error processing", last.template_file)

C4_Witness ==
    /\ pc = "done"
    /\ \E m, n \in 1..Len(log) :
          /\ m < n
          /\ log[m].msg = "Error processing"
          /\ log[n].msg = "Created"

\* The header is a mapping without a usable output.file_name
LacksTarget(fm) ==
    /\ fm.t = "map"
    /\ \/ ~Truthy(DictGet(fm.m, output, Map(EmptyDict)))
       \/ /\ DictGet(fm.m, output, Map(EmptyDict)).t = "map"
          /\ ~Truthy(DictGet(DictGet(fm.m, output, Map(EmptyDict)).m, file_name, Null))

Warnings == {"Warning: No output info found", "Warning: No file_name in output info"}

\* C5: a template whose header has no output, or an empty one, or whose
\* output has no file_name, or an empty one, is skipped with a warning: no
\* directory is created, no file is written, no error reaches the loop.
C5_SkipLeavesFilesystemAlone ==
    [][(pc = "loop" /\ i' = i + 1 /\ last'.read /\ LacksTarget(last'.frontmatter)) =>
          /\ fs' = fs
          /\ dirs' = dirs
          /\ writes' = writes
          /\ last'.raised = "none"
          /\ pc' # "crashed"
          /\ log'[Len(log')].msg \in Warnings
          /\ log'[Len(log')].file = last'.template_file]_vars

C5_Witness ==
    /\ last.outcome # "none"
    /\ last.read
    /\ LacksTarget(last.frontmatter)
    /\ DictHas(last.frontmatter.m, output)
    /\ writes # <<>>

HasDelimitedBlock(content) ==
    /\ Len(content) >= 3
    /\ content[1] = Delim
    /\ \E j \in 3..Len(content) : content[j] = Delim

MalformedBlock(content) ==
    /\ HasDelimitedBlock(content)
    /\ \E n \in 2..Len(content) :
          /\ content[n].t = "line"
          /\ content[n].form = "bad"
          /\ \A j \in 2..n : content[j] # Delim

\* C6: for a file without a delimited header at its start, or with a block
\* that is not valid YAML, parse_frontmatter returns an empty header and the
\* whole content as body; nothing is substituted or written for the file, and
\* the rest of the batch is processed.
C6_UnparsedFileIsSkipped ==
    (/\ last.outcome # "none"
     /\ last.read
     /\ ~HasDelimitedBlock(last.content) \/ MalformedBlock(last.content)) =>
        /\ last.frontmatter = Map(EmptyDict)
        /\ last.body = last.content
        /\ last.outcome = "no output"
        /\ last.raised = "none"
        /\ last.wrote = <<>>
        /\ GoesOn

C6_Witness ==
    /\ last.outcome # "none"
    /\ last.read
    /\ MalformedBlock(last.content)
    /\ pc = "loop"

\* C7: a second run on unchanged templates leaves every file with the
\* content it had after the first run, whatever the listing order, also when
\* the output directory is the template directory.
C7_SecondRunIsIdentical ==
    (/\ run = 2
     /\ pc = "done"
     /\ faults = 0
     /\ \A p \in GlobMd(origin, FixedDirs) :
           p \in DOMAIN fs /\ fs[p] = origin[p] /\ snap[p] = origin[p]) =>
        fs = snap

\* C8: in one run no path is written for more than one template, and no
\* template of the batch is overwritten by the output of another template.
C8_EachOutputWrittenOnce ==
    /\ \A m, n \in 1..Len(writes) :
          writes[m].by # writes[n].by => writes[m].path # writes[n].path
    /\ \A n \in 1..Len(writes) :
          writes[n].path \in Listed => writes[n].by = writes[n].path

HasTarget(fm) ==
    /\ fm.t = "map"
    /\ DictGet(fm.m, output, Map(EmptyDict)).t = "map"
    /\ Truthy(DictGet(DictGet(fm.m, output, Map(EmptyDict)).m, file_name, Null))

TargetName(fm) == DictGet(DictGet(fm.m, output, Map(EmptyDict)).m, file_name, Null)

LineKeys(lines) == [n \in 1..Len(lines) |-> <<lines[n].ind, lines[n].key>>]

\* The text between the opening delimiter and the delimiter before the body
WrittenHeader(text, body) == SubSeq(text, 2, Len(text) - Len(body) - 1)

\* C9: a template with a non-empty output.file_name whose processing raises
\* nothing makes exactly one write, at output_base_dir joined with file_name,
\* below directories that now exist, replacing what was there; the text is
\* the delimiter, the header again with its keys in their declared order,
\* the delimiter, and the substituted body.
C9_WritesFramedDocument ==
    (/\ last.outcome # "none"
     /\ last.read
     /\ last.raised = "none"
     /\ HasTarget(last.frontmatter)) =>
        /\ Len(last.wrote) = 1
        /\ last.wrote[1].by = last.template_file
        /\ last.wrote[1].path = PathJoin(output_base_dir, TargetName(last.frontmatter).s)
        /\ last.wrote[1].path \in DOMAIN fs
        /\ fs[last.wrote[1].path] = last.wrote[1].text
        /\ Prefixes(Parent(last.wrote[1].path)) \subseteq dirs
        /\ last.wrote[1].text
              = <<Delim>> \o WrittenHeader(last.wrote[1].text, last.processed_body)
                \o <<Delim>> \o last.processed_body
        /\ safe_load(WrittenHeader(last.wrote[1].text, last.processed_body))
              = [ok |-> TRUE, v |-> last.frontmatter]
        /\ LineKeys(WrittenHeader(last.wrote[1].text, last.processed_body))
              = LineKeys(Group1(last.content))
        /\ last.processed_body = replace_variables(last.body, last.variables).s

C9_Witness ==
    /\ last.outcome = "created"
    /\ DictKeys(last.frontmatter.m) = <<output, metadata>>
    /\ last.wrote[1].path \in DOMAIN start.fs

\* C10: the list of *.md files is taken once, before the loop; exactly its
\* files are processed, once each and in its order; a file the run creates
\* is not processed in that run; an empty list means nothing is processed
\* and nothing is written.
C10_ListIsTakenOnce ==
    pc \in {"loop", "done"} =>
        /\ Listed = GlobMd(start.fs, start.dirs)
        /\ Len(template_files) = Cardinality(Listed)
        /\ Attempted = SubSeq(template_files, 1,
                              IF pc = "done" THEN Len(template_files) ELSE i - 1)
        /\ template_files = <<>> =>
              pc = "done" /\ writes = <<>> /\ fs = start.fs /\ dirs = start.dirs

C10_Witness ==
    /\ pc = "done"
    /\ Len(template_files) >= 2
    /\ GlobMd(fs, dirs) \ GlobMd(start.fs, start.dirs) # {}

====
